---- MODULE Spec2Model ----
(***************************************************************************)
(* Slot reservation store (app/db.py) and the payment handlers that use it *)
(* (app/routers.py) of jetskiandmore-backend.                              *)
(*                                                                         *)
(* db.timeslots is a set of documents.  Each document carries its _id, so  *)
(* that the unique index on timeslots.key is a property the insert has to  *)
(* enforce, not one the representation gives for free.  db.bookings, which *)
(* has no unique index, is a bag of documents without their _id.           *)
(* Time is counted in minutes.  Every request handler runs in its own      *)
(* worker thread; handlers interleave at their store and gateway calls.    *)
(***************************************************************************)
EXTENDS Integers, FiniteSets, Sequences, Bags, TLC

\* ------------------------------------------------------------------ bounds
MaxBookings == 2
MaxTime == 21
RaceCallers == 3
MaxDocs == 2

\* ------------------------------------------------------- program constants
DefaultHoldMinutes == 20

\* ------------------------------------------------------------ value spaces
None == "None"
Unset == -1

Clients == {"A", "B"}
Callers == 1..RaceCallers
Rides == {"30-1"}
Dates == {"2025-06-01"}
Times == {"12:00"}
OrderIds == {"ord-1"}

\* BookingRequest: rideId and email are required, date and time are
\* Optional[str].  Each client is one customer, known by the email.
BookingRequest == [rideId : Rides, date : Dates, time : Times, email : Clients]
NoBooking == [rideId |-> None, date |-> None, time |-> None, email |-> None]
RequestsOf(c) == {b \in BookingRequest : b.email = c}

\* the slots seed_timeslots sweeps
Slots == [rideId : Rides, date : Dates, time : Times]

VARIABLES
    now,            \* datetime.utcnow(), in minutes
    timeslots,      \* db.timeslots
    bookings,       \* db.bookings
    ORDER_BOOKINGS, \* routers.ORDER_BOOKINGS
    th,             \* per request thread: the handler's position and locals
    reclaimed       \* history: keys of the documents the TTL monitor deleted

store == <<timeslots, bookings, ORDER_BOOKINGS>>
vars == <<now, store, th, reclaimed>>

\* A request thread: pc is where the handler stands, op the handler, booking
\* the booking it works on, doc the holdUntil of the document hold_slot built,
\* ok what hold_slot returned, order the order id, status the booking status
\* the handler computed, bookRet what book_slot gave its caller, code the
\* status code of the response.  An idle thread keeps the handler, the
\* booking, hold_slot's result and the response of its last request.
Idle ==
    [pc |-> "idle", op |-> "", booking |-> NoBooking, doc |-> Unset, ok |-> None,
     order |-> None, status |-> "", bookRet |-> "", code |-> 0]

\* a new request
Fresh(name, b) == [Idle EXCEPT !.op = name, !.booking = b]

\* the clock is observed in steps of a little more than the default hold
\* period: a hold placed before a step has expired after it
TickMinutes == DefaultHoldMinutes + 1

\* ------------------------------------------------------------- app/db.py
\* the _id the driver gives a document: one no document of the collection has
FreshId(coll) ==
    CHOOSE i \in 1..(Cardinality(coll) + 1) :
        /\ \A r \in coll : r.id # i
        /\ \A j \in 1..(i - 1) : \E r \in coll : r.id = j

Max(a, b) == IF a >= b THEN a ELSE b

\* `x or ''`
OrEmpty(x) == IF x = None \/ x = "" THEN "" ELSE x

\* Python truthiness of an Optional[str]
Truthy(x) == x # None /\ x # ""

\* f"{ride_id}|{date or ''}|{time_str or ''}"
slot_key(ride_id, date, time_str) == <<ride_id, OrEmpty(date), OrEmpty(time_str)>>

\* holdUntil = utcnow() + timedelta(minutes=max(1, minutes))
HoldUntilNoFloor(t, minutes) == t + minutes
HoldUntil(t, minutes) == t + Max(1, minutes)

\* the document hold_slot inserts
HoldDoc(id, b, holdUntil) ==
    [id |-> id, key |-> slot_key(b.rideId, b.date, b.time),
     rideId |-> b.rideId, date |-> b.date, time |-> b.time,
     status |-> "hold", holdUntil |-> holdUntil]

\* the document the upsert of book_slot inserts: the filter's key and the $set
UpsertDoc(id, key) ==
    [id |-> id, key |-> key, rideId |-> "Missing", date |-> "Missing",
     time |-> "Missing", status |-> "booked", holdUntil |-> Unset]

\* {'$set': {'status': 'booked'}, '$unset': {'holdUntil': ''}}
BookUpdateNoUnset(r) == [r EXCEPT !.status = "booked"]
BookUpdate(r) == [r EXCEPT !.status = "booked", !.holdUntil = Unset]

\* index uniq_slot_key: an insert is refused while any document has the key
DuplicateKeyOff(ts, key) == FALSE
DuplicateKey(ts, key) == \E r \in ts : r.key = key

\* index ttl_hold_until, expireAfterSeconds=0: documents that carry a
\* holdUntil date in the past are deleted by the TTL monitor
TTLExpiredNever(r, t) == FALSE
TTLExpired(r, t) == r.holdUntil # Unset /\ r.holdUntil < t

\* exception classes and `except` matching
Ancestors(e) ==
    CASE e = "DuplicateKeyError" -> {"DuplicateKeyError", "PyMongoError", "Exception"}
      [] e = "PyMongoError" -> {"PyMongoError", "Exception"}
      [] e = "HTTPException" -> {"HTTPException", "Exception"}
      [] OTHER -> {}
Catches(handler, e) == handler \in Ancestors(e)

\* db.timeslots.insert_one(doc): the exception it raises, "" when none
InsertRaises(ts, d, fault) ==
    IF fault THEN "PyMongoError"
    ELSE IF DuplicateKey(ts, d.key) THEN "DuplicateKeyError"
    ELSE ""

\* hold_slot: [ret, raised, ts]; ret is "True"/"False", raised an exception
\* that leaves hold_slot
hold_slot(ts, d, fault) ==
    LET e == InsertRaises(ts, d, fault) IN
    IF e = "" THEN [ret |-> "True", raised |-> "", ts |-> ts \cup {d}]
    ELSE IF Catches("DuplicateKeyError", e)
         THEN [ret |-> "False", raised |-> "", ts |-> ts]
         ELSE [ret |-> None, raised |-> e, ts |-> ts]

\* book_slot: update_one({'key': key}, ..., upsert=True); returns None
book_slot(ts, key, id, fault) ==
    IF fault THEN [ret |-> None, raised |-> "PyMongoError", ts |-> ts]
    ELSE IF \E r \in ts : r.key = key
         THEN LET r == CHOOSE x \in ts : x.key = key IN
              [ret |-> None, raised |-> "",
               ts |-> (ts \ {r}) \cup {BookUpdate(r)}]
         ELSE [ret |-> None, raised |-> "",
               ts |-> ts \cup {UpsertDoc(id, key)}]

\* seed_timeslots: the document of an open slot, inserted if the key is new
SeedDoc(id, b) ==
    [id |-> id, key |-> slot_key(b.rideId, b.date, b.time),
     rideId |-> b.rideId, date |-> b.date, time |-> b.time,
     status |-> "open", holdUntil |-> Unset]

\* save_booking: the document inserted into db.bookings
BookingDoc(b, st) ==
    [rideId |-> b.rideId, date |-> b.date, time |-> b.time,
     email |-> b.email, status |-> st]

\* ------------------------------------------------------ app/routers.py
HoldOps == {"payments_initiate", "payments_checkout", "payments_link"}
ConfirmOps == {"payments_charge", "payments_verify", "payments_verify_checkout"}

\* the statuses each confirming handler counts as a successful payment
ChargeSuccess == {"successful", "succeeded", "paid", "approved", "captured"}
OrderSuccess == {"approved", "captured", "succeeded", "successful"}
CheckoutSuccess == {"completed", "approved", "captured", "succeeded", "successful", "paid"}

\* what the payment gateway answers in this model
GatewayStatuses == {"successful", "pending"}
CheckoutStatuses == {"completed", "pending"}

\* the handler of thread t answers with a status code: the thread is idle
Respond(t, code) ==
    [Idle EXCEPT !.op = t.op, !.booking = t.booking, !.ok = t.ok, !.code = code]

\* The try block around hold_slot in payments_initiate / _checkout / _link:
\*     ok = hold_slot(...)
\*     if ok is False: raise HTTPException(status_code=409, ...)
\* gives the exception raised inside the try, "" when none.
HoldTryRaises(h) ==
    IF h.raised # "" THEN h.raised
    ELSE IF h.ret = "False" THEN "HTTPException"
    ELSE ""

\* `except Exception: pass` around that try block: the exception that
\* leaves the handler, "" when it was caught or none was raised.
HoldBlockRaises(h) ==
    LET e == HoldTryRaises(h) IN
    IF e # "" /\ ~Catches("Exception", e) THEN e ELSE ""

\* a hold handler after its hold block: payments_initiate returns the payment
\* information, the other two go on to call the payment gateway
AfterHold(t) ==
    IF t.op = "payments_initiate"
    THEN Respond(t, 200)
    ELSE [t EXCEPT !.pc = "gateway"]

\* seed_timeslots over the slots S: one upsert with $setOnInsert per key
RECURSIVE seed_timeslots(_, _)
seed_timeslots(ts, S) ==
    IF S = {} THEN ts
    ELSE LET b == CHOOSE x \in S : TRUE
             d == SeedDoc(FreshId(ts), b)
         IN  seed_timeslots(IF DuplicateKey(ts, d.key) THEN ts ELSE ts \cup {d},
                            S \ {b})

Init ==
    /\ now = 0
    /\ \E S \in SUBSET Slots : timeslots = seed_timeslots({}, S)
    /\ bookings = EmptyBag
    /\ ORDER_BOOKINGS = [o \in OrderIds |-> NoBooking]
    /\ th = [c \in Clients |-> Idle]
    /\ reclaimed = {}

\* a request of client c arrives: the client has no request in flight
Arrive(c) == th[c].pc = "idle"

\* confirming requests in flight
Confirming == {c \in DOMAIN th : th[c].pc \in {"order", "book", "save"}}

\* a confirming request is taken while the bookings it and the requests in
\* flight can add stay within the bound of the model
ConfirmArrive(c) ==
    /\ Arrive(c)
    /\ BagCardinality(bookings) + Cardinality(Confirming) < MaxBookings

\* payments_initiate / payments_checkout / payments_link up to the call of
\* hold_slot, which builds its document from the clock
HoldRequest(c) ==
    /\ Arrive(c)
    /\ \E name \in HoldOps, b \in RequestsOf(c) :
        LET t == Fresh(name, b) IN
        th' = [th EXCEPT ![c] =
                 IF Truthy(b.date) /\ Truthy(b.time)
                 THEN [t EXCEPT !.pc = "hold",
                                !.doc = HoldUntil(now, DefaultHoldMinutes)]
                 ELSE AfterHold(t)]
    /\ UNCHANGED <<now, store, reclaimed>>

\* hold_slot's insert_one and the try/except around hold_slot in the handler
HoldInsert(c) ==
    /\ th[c].pc = "hold"
    /\ \E fault \in BOOLEAN :
        LET t == th[c]
            h == hold_slot(timeslots, HoldDoc(FreshId(timeslots), t.booking, t.doc), fault)
            e == HoldBlockRaises(h)
            u == [t EXCEPT !.ok = h.ret, !.doc = Unset]
        IN  /\ timeslots' = h.ts
            /\ th' = [th EXCEPT ![c] =
                        IF e = "HTTPException"
                        THEN Respond(u, 409)
                        ELSE AfterHold(u)]
    /\ UNCHANGED <<now, bookings, ORDER_BOOKINGS, reclaimed>>

\* payments_checkout / payments_link: the call to the payment gateway that
\* creates the checkout session or the payment link
GatewayCreate(c) ==
    /\ th[c].pc = "gateway"
    /\ \E out \in {"created", "refused"}, oid \in OrderIds \cup {None} :
        /\ th' = [th EXCEPT ![c] =
                    IF out = "refused" THEN Respond(@, 400) ELSE Respond(@, 200)]
        /\ ORDER_BOOKINGS' =
              IF out = "created" /\ th[c].op = "payments_link" /\ oid # None
              THEN [ORDER_BOOKINGS EXCEPT ![oid] = th[c].booking]
              ELSE ORDER_BOOKINGS
    /\ UNCHANGED <<now, timeslots, bookings, reclaimed>>


\* payments_charge up to book_slot: create_charge and the success test.
\* book_slot is called whatever the charge's status is.
ChargeRequest(c) ==
    /\ ConfirmArrive(c)
    /\ \E b \in RequestsOf(c), out \in GatewayStatuses \cup {"YocoError"} :
        LET t == Fresh("payments_charge", b) IN
        th' = [th EXCEPT ![c] =
                 IF out = "YocoError" THEN Respond(t, 400)
                 ELSE [t EXCEPT !.pc = "book",
                                !.status = IF out \in ChargeSuccess
                                           THEN "approved" ELSE out]]
    /\ UNCHANGED <<now, store, reclaimed>>

\* payments_verify up to the order lookup: the booking is stashed under the
\* order id
VerifyRequest(c) ==
    /\ ConfirmArrive(c)
    /\ \E b \in RequestsOf(c), oid \in OrderIds :
        /\ ORDER_BOOKINGS' = [ORDER_BOOKINGS EXCEPT ![oid] = b]
        /\ th' = [th EXCEPT ![c] =
                    [Fresh("payments_verify", b) EXCEPT
                        !.pc = "order", !.order = oid]]
    /\ UNCHANGED <<now, timeslots, bookings, reclaimed>>

\* payments_verify: the order comes back from the gateway; on an approved
\* payment the booking is ORDER_BOOKINGS.get(order_id) or req.booking
VerifyOrder(c) ==
    /\ th[c].pc = "order"
    /\ \E out \in GatewayStatuses \cup {"RequestError"} :
        LET t == th[c]
            st == IF out \in OrderSuccess THEN "approved" ELSE "pending"
            stashed == ORDER_BOOKINGS[t.order]
        IN  th' = [th EXCEPT ![c] =
                     IF out = "RequestError" THEN Respond(t, 502)
                     ELSE IF st = "approved"
                     THEN [t EXCEPT !.pc = "book", !.status = "approved",
                                    !.booking = IF stashed # NoBooking
                                                THEN stashed ELSE t.booking]
                     ELSE Respond(t, 200)]
    /\ UNCHANGED <<now, store, reclaimed>>

\* payments_verify_checkout up to book_slot: the checkout comes back from
\* the gateway
VerifyCheckoutRequest(c) ==
    /\ ConfirmArrive(c)
    /\ \E b \in RequestsOf(c), out \in CheckoutStatuses \cup {"RequestError"} :
        LET t == Fresh("payments_verify_checkout", b) IN
        th' = [th EXCEPT ![c] =
                 IF out = "RequestError" THEN Respond(t, 502)
                 ELSE IF out \in CheckoutSuccess
                 THEN [t EXCEPT !.pc = "book", !.status = "approved"]
                 ELSE Respond(t, 200)]
    /\ UNCHANGED <<now, store, reclaimed>>

\* the call of book_slot in a confirming handler.  payments_charge and
\* payments_verify swallow what it raises and go on to persist the booking;
\* in payments_verify_checkout the same try holds both calls, so a raise
\* skips _persist_booking_and_notify.
BookSlot(c) ==
    /\ th[c].pc = "book"
    /\ \E fault \in BOOLEAN :
        LET t == th[c]
            key == slot_key(t.booking.rideId, t.booking.date, t.booking.time)
            u == book_slot(timeslots, key, FreshId(timeslots), fault)
            r == [t EXCEPT !.bookRet = IF u.raised # "" THEN u.raised ELSE u.ret]
        IN  /\ timeslots' = u.ts
            /\ th' = [th EXCEPT ![c] =
                        IF u.raised # "" /\ t.op = "payments_verify_checkout"
                        THEN Respond(r, 200)
                        ELSE [r EXCEPT !.pc = "save"]]
    /\ UNCHANGED <<now, bookings, ORDER_BOOKINGS, reclaimed>>

\* _persist_booking_and_notify: save_booking; when it raises nothing is saved
\* and the handler answers all the same
SaveBooking(c) ==
    /\ th[c].pc = "save"
    /\ \E fault \in BOOLEAN :
        /\ bookings' = IF fault THEN bookings
                       ELSE bookings (+)
                            SetToBag({BookingDoc(th[c].booking, th[c].status)})
        /\ th' = [th EXCEPT ![c] = Respond(@, 200)]
    /\ UNCHANGED <<now, timeslots, ORDER_BOOKINGS, reclaimed>>

\* ------------------------------------------------------------ environment
\* time passes
Tick ==
    /\ now + TickMinutes <= MaxTime
    /\ now' = now + TickMinutes
    /\ UNCHANGED <<store, th, reclaimed>>

\* the TTL monitor deletes one expired document
TTLDelete ==
    \E r \in timeslots :
        /\ TTLExpired(r, now)
        /\ timeslots' = timeslots \ {r}
        /\ reclaimed' = reclaimed \cup {r.key}
        /\ UNCHANGED <<now, bookings, ORDER_BOOKINGS, th>>

Next ==
    \/ \E c \in Clients : HoldRequest(c)
    \/ \E c \in Clients : HoldInsert(c)
    \/ \E c \in Clients : GatewayCreate(c)
    \/ \E c \in Clients : ChargeRequest(c)
    \/ \E c \in Clients : VerifyRequest(c)
    \/ \E c \in Clients : VerifyOrder(c)
    \/ \E c \in Clients : VerifyCheckoutRequest(c)
    \/ \E c \in Clients : BookSlot(c)
    \/ \E c \in Clients : SaveBooking(c)
    \/ Tick
    \/ TTLDelete

Spec == Init /\ [][Next]_vars

\* The TTL monitor is a background task of the store that runs every minute:
\* a document that stays expired is deleted in the end.
LiveSpec == Init /\ [][Next]_vars /\ WF_vars(TTLDelete)

\* ---------------------------------------------- hold_slot called directly
\* N callers race hold_slot on one slot that has no document, each with its
\* own minutes argument (the default when it gives none); the store answers
\* every insert.
RaceMinutes == {-5, 0, DefaultHoldMinutes}

RaceInit ==
    /\ now = 0
    /\ timeslots = {}
    /\ bookings = EmptyBag
    /\ ORDER_BOOKINGS = [o \in OrderIds |-> NoBooking]
    /\ \E b \in BookingRequest :
          th = [c \in Callers |-> [Idle EXCEPT !.pc = "call", !.op = "hold_slot",
                                               !.booking = b]]
    /\ reclaimed = {}

\* hold_slot builds its document from the clock
RaceCall(c) ==
    /\ th[c].pc = "call"
    /\ \E minutes \in RaceMinutes :
          th' = [th EXCEPT ![c] = [@ EXCEPT !.pc = "hold",
                                           !.doc = HoldUntil(now, minutes)]]
    /\ UNCHANGED <<now, store, reclaimed>>

\* hold_slot's insert_one and its return
RaceInsert(c) ==
    /\ th[c].pc = "hold"
    /\ LET t == th[c]
           h == hold_slot(timeslots, HoldDoc(FreshId(timeslots), t.booking, t.doc), FALSE)
       IN  /\ timeslots' = h.ts
           /\ th' = [th EXCEPT ![c] = [t EXCEPT !.pc = "returned", !.ok = h.ret]]
    /\ UNCHANGED <<now, bookings, ORDER_BOOKINGS, reclaimed>>

RaceNext ==
    \/ \E c \in Callers : RaceCall(c)
    \/ \E c \in Callers : RaceInsert(c)
    \/ Tick
    \/ TTLDelete

RaceSpec == RaceInit /\ [][RaceNext]_vars

\* --------------------------------- hold_slot, then book_slot, called directly
\* A caller whose hold_slot returned True calls book_slot on its key, and
\* then calls it once more; the store answers every update.
PromoteCall(c) ==
    /\ th[c].pc \in {"returned", "promoted"}
    /\ th[c].ok = "True"
    /\ LET t == th[c]
           key == slot_key(t.booking.rideId, t.booking.date, t.booking.time)
           u == book_slot(timeslots, key, FreshId(timeslots), FALSE)
       IN  /\ timeslots' = u.ts
           /\ th' = [th EXCEPT ![c] =
                       [t EXCEPT !.pc = IF t.pc = "returned" THEN "promoted"
                                        ELSE "promoted twice",
                                 !.bookRet = IF u.raised # "" THEN u.raised ELSE u.ret]]
    /\ UNCHANGED <<now, bookings, ORDER_BOOKINGS, reclaimed>>

PromoteNext ==
    \/ \E c \in Callers : RaceCall(c)
    \/ \E c \in Callers : RaceInsert(c)
    \/ \E c \in Callers : PromoteCall(c)
    \/ Tick
    \/ TTLDelete

PromoteSpec == RaceInit /\ [][PromoteNext]_vars

\* ------------------------------------------- GET /timeslots: its pure parts
\* Text is a sequence of one-character strings, so that splitting, int() and
\* formatting are computed on the characters.  A value that may be None is
\* tagged with its Python type.
Str(cs) == [kind |-> "str", s |-> cs]
PyNone == [kind |-> "NoneType", s |-> <<>>]

DAY_START_MINUTES == 480
DAY_END_MINUTES == 1020
TIMESLOT_STEP_MINUTES == 15
BOOKING_BUFFER_MINUTES == 10

Min(a, b) == IF a <= b THEN a ELSE b

DigitChars == <<"0", "1", "2", "3", "4", "5", "6", "7", "8", "9">>
IsDigit(ch) == \E i \in 1..10 : DigitChars[i] = ch
DigitVal(ch) == (CHOOSE i \in 1..10 : DigitChars[i] = ch) - 1

\* the value of a non-empty run of decimal digits
RECURSIVE DigitsVal(_)
DigitsVal(cs) ==
    IF cs = <<>> THEN 0
    ELSE 10 * DigitsVal(SubSeq(cs, 1, Len(cs) - 1)) + DigitVal(cs[Len(cs)])

AllDigits(cs) == cs # <<>> /\ \A i \in 1..Len(cs) : IsDigit(cs[i])

\* str.strip() of blanks
RECURSIVE Strip(_)
Strip(cs) ==
    IF cs = <<>> THEN cs
    ELSE IF cs[1] = " " THEN Strip(Tail(cs))
    ELSE IF cs[Len(cs)] = " " THEN Strip(SubSeq(cs, 1, Len(cs) - 1))
    ELSE cs

\* int(text): blanks around, an optional sign, then decimal digits; the set
\* holding the integer, empty when int() raises ValueError
PyInt(cs) ==
    LET b == Strip(cs)
        signed == b # <<>> /\ b[1] \in {"+", "-"}
        d == IF signed THEN Tail(b) ELSE b
    IN  IF ~AllDigits(d) THEN {}
        ELSE IF signed /\ b[1] = "-" THEN {0 - DigitsVal(d)}
        ELSE {DigitsVal(d)}

\* text.split(sep, 1)
Split1(cs, sep) ==
    IF \E i \in 1..Len(cs) : cs[i] = sep
    THEN LET i == CHOOSE j \in 1..Len(cs) :
                    cs[j] = sep /\ \A k \in 1..(j - 1) : cs[k] # sep
         IN  <<SubSeq(cs, 1, i - 1), SubSeq(cs, i + 1, Len(cs))>>
    ELSE <<cs>>

\* text.split(sep)
RECURSIVE Split(_, _)
Split(cs, sep) ==
    LET p == Split1(cs, sep) IN
    IF Len(p) = 1 THEN p ELSE <<p[1]>> \o Split(p[2], sep)

\* _parse_time_str_to_minutes: Optional[int] as a set of at most one integer
ParseTimeNoRange(x) ==
    IF x.kind # "str" THEN {}
    ELSE LET p == Split1(x.s, ":") IN
         IF Len(p) # 2 THEN {}
         ELSE {q[1] * 60 + q[2] : q \in PyInt(p[1]) \X PyInt(p[2])}
_parse_time_str_to_minutes(x) ==
    IF x.kind # "str" THEN {}
    ELSE LET p == Split1(x.s, ":") IN
         IF Len(p) # 2 THEN {}
         ELSE {hh * 60 + mm : <<hh, mm>> \in
                  {q \in PyInt(p[1]) \X PyInt(p[2]) :
                      0 <= q[1] /\ q[1] < 24 /\ 0 <= q[2] /\ q[2] < 60}}

\* f"{n:02d}" for 0 <= n
RECURSIVE Decimal(_)
Decimal(n) ==
    IF n < 10 THEN <<DigitChars[n + 1]>>
    ELSE Decimal(n \div 10) \o <<DigitChars[(n % 10) + 1]>>
Pad2(n) == IF n < 10 THEN <<"0">> \o Decimal(n) ELSE Decimal(n)

\* f"{hh:02d}:{mm:02d}" of a start in minutes since midnight
FormatTimeHourOnly(t) == Pad2(t \div 60) \o <<":", "0", "0">>
FormatTime(t) == Pad2(t \div 60) \o <<":">> \o Pad2(t % 60)

\* datetime.strptime(date, "%Y-%m-%d") returns (TRUE) or raises ValueError
IsLeap(y) == (y % 4 = 0 /\ y % 100 # 0) \/ y % 400 = 0
DaysInMonth(y, m) ==
    IF m = 2 THEN (IF IsLeap(y) THEN 29 ELSE 28)
    ELSE IF m \in {4, 6, 9, 11} THEN 30 ELSE 31
StrptimeAny(date) == TRUE
StrptimeOk(date) ==
    LET p == Split(date, "-") IN
    /\ Len(p) = 3
    /\ Len(p[1]) = 4 /\ AllDigits(p[1])
    /\ Len(p[2]) \in {1, 2} /\ AllDigits(p[2])
    /\ Len(p[3]) \in {1, 2} /\ AllDigits(p[3])
    /\ LET y == DigitsVal(p[1])
           m == DigitsVal(p[2])
           d == DigitsVal(p[3])
       IN  /\ y >= 1
           /\ 1 <= m /\ m <= 12
           /\ 1 <= d /\ d <= DaysInMonth(y, m)

\* re.match(r"^<prefix>\d+$", ride_id)
MatchNever(prefix, ride_id) == FALSE
MatchPrefixDigits(prefix, ride_id) ==
    /\ Len(ride_id) > Len(prefix)
    /\ SubSeq(ride_id, 1, Len(prefix)) = prefix
    /\ AllDigits(SubSeq(ride_id, Len(prefix) + 1, Len(ride_id)))

\* What db.rides.find_one gives _ride_duration_minutes: "raises", "missing"
\* (no ride document), or the document's durationMinutes tagged with its type
\* (bool is a subclass of int and True > 0).
ConfiguredDurationUnchecked(read) ==
    IF read.kind \in {"int", "bool"} THEN {read.v} ELSE {}
ConfiguredDuration(read) ==
    IF read.kind \in {"int", "bool"} /\ read.v > 0 THEN {read.v} ELSE {}

_ride_duration_minutes(read, ride_id) ==
    IF ConfiguredDuration(read) # {}
    THEN CHOOSE d \in ConfiguredDuration(read) : TRUE
    ELSE IF MatchPrefixDigits(<<"3", "0", "-">>, ride_id) THEN 30
    ELSE IF MatchPrefixDigits(<<"6", "0", "-">>, ride_id) THEN 60
    ELSE IF ride_id = <<"j", "o", "y">> THEN 10
    ELSE IF ride_id = <<"g", "r", "o", "u", "p">> THEN 150
    ELSE 30

\* (start_block, end_block) of a record that starts at minute m
BlockOfNoBuffer(m, duration) == <<m, Min(24 * 60, m + duration)>>
BlockOfUnclamped(m, duration) ==
    <<m - BOOKING_BUFFER_MINUTES, m + duration + BOOKING_BUFFER_MINUTES>>
BlockOfTwiceAfter(m, duration) ==
    <<Max(0, m - BOOKING_BUFFER_MINUTES),
      Min(24 * 60, m + duration + 2 * BOOKING_BUFFER_MINUTES)>>
BlockOf(m, duration) ==
    <<Max(0, m - BOOKING_BUFFER_MINUTES),
      Min(24 * 60, m + duration + BOOKING_BUFFER_MINUTES)>>

\* the blocks one source contributes: the documents the find() selects, those
\* whose time does not parse skipped.  The list `blocked` is kept as the set
\* of its entries: the candidate loop only asks whether some entry overlaps.
BlocksOf(docs, statuses, rideId, date, duration) ==
    {BlockOf(m, duration) :
        m \in UNION {_parse_time_str_to_minutes(d.time) :
                        d \in {x \in docs : /\ x.rideId = rideId
                                            /\ x.date = date
                                            /\ x.status \in statuses}}}

SlotStatuses == {"hold", "booked"}
NoStatuses == {}
BookingStatuses == {"approved", "processing", "created"}

\* not (candidate_end <= b_start or candidate_start >= b_end)
OverlapsClosed(candidate_start, candidate_end, b) ==
    ~(candidate_end < b[1] \/ candidate_start > b[2])
Overlaps(candidate_start, candidate_end, b) ==
    ~(candidate_end <= b[1] \/ candidate_start >= b[2])

\* the while loop over the candidates from t on
CandidatesNone(t, duration, blocked) == <<>>
RECURSIVE CandidatesToClose(_, _, _)
CandidatesToClose(t, duration, blocked) ==
    IF t > DAY_END_MINUTES THEN <<>>
    ELSE (IF \E b \in blocked : Overlaps(t, t + duration, b)
          THEN <<>> ELSE <<FormatTime(t)>>)
         \o CandidatesToClose(t + TIMESLOT_STEP_MINUTES, duration, blocked)
RECURSIVE Candidates(_, _, _)
Candidates(t, duration, blocked) ==
    IF t > DAY_END_MINUTES - duration THEN <<>>
    ELSE (IF \E b \in blocked : Overlaps(t, t + duration, b)
          THEN <<>> ELSE <<FormatTime(t)>>)
         \o Candidates(t + TIMESLOT_STEP_MINUTES, duration, blocked)

\* ------------------------------------------------ GET /timeslots: handler
\* The handler is run against a store that holds at most MaxDocs documents.
\* db.timeslots holds documents written by hold_slot (a hold that has expired
\* and one that has not), promoted by book_slot, or seeded open; db.bookings
\* holds documents written by save_booking.  BookingRequest.time is an
\* unvalidated Optional[str], so a stored time is any text, or None in a
\* booking (hold_slot is only called with a non-empty time).
Ride30 == <<"3", "0", "-", "1">>
Ride60 == <<"6", "0", "-", "1">>
RideJoy == <<"j", "o", "y">>
RideOther == <<"x">>
Date1 == <<"2", "0", "2", "5", "-", "0", "6", "-", "0", "1">>
Date2 == <<"2", "0", "2", "5", "-", "0", "6", "-", "0", "2">>
DateNoDay == <<"2", "0", "2", "5", "-", "0", "2", "-", "3", "0">>
DateSlashes == <<"0", "1", "/", "0", "6", "/", "2", "0", "2", "5">>
Noon == <<"1", "2", ":", "0", "0">>
Ten == <<"1", "0", ":", "0", "0">>
LateEvening == <<"2", "3", ":", "5", "0">>
AfterMidnight == <<"0", "0", ":", "0", "5">>
Unpadded == <<"9", ":", "5">>
Hour24 == <<"2", "4", ":", "0", "0">>
Word == <<"n", "o", "o", "n">>

BookingTimes == {Str(Noon), Str(AfterMidnight), Str(Unpadded), Str(Word), PyNone}

QueryRides == {Ride30, Ride60, RideOther, <<>>}
QueryDates == {Date1, Date2, DateNoDay, DateSlashes, <<>>}
RideReads ==
    {[kind |-> "missing", v |-> 0], [kind |-> "raises", v |-> 0],
     [kind |-> "int", v |-> 600]}

\* slot_key over texts: f"{ride_id}|{date or ''}|{time_str or ''}"
KeyText(ride_id, date, time) ==
    ride_id \o <<"|">> \o date \o <<"|">>
        \o (IF time.kind = "str" THEN time.s ELSE <<>>)

\* status and holdUntil of a document of db.timeslots: seeded open, promoted,
\* a hold placed at minute 0 (expired at AvailInit), a hold placed just now
SlotForms ==
    {<<"open", Unset>>, <<"booked", Unset>>,
     <<"hold", HoldUntil(0, DefaultHoldMinutes)>>,
     <<"hold", HoldUntil(TickMinutes, DefaultHoldMinutes)>>}

SlotDoc(r, d, t, f) ==
    [id |-> 0, key |-> KeyText(r, d, Str(t)), rideId |-> r, date |-> d,
     time |-> Str(t), status |-> f[1], holdUntil |-> f[2]]

\* the documents of db.timeslots, without their _id
SlotDocs ==
    {SlotDoc(Ride30, Date1, t, f) : t \in {Noon, LateEvening, Hour24}, f \in SlotForms}
    \cup {SlotDoc(Ride60, Date1, Ten, f) : f \in SlotForms}

SavedDoc(r, d, t, st) ==
    [rideId |-> r, date |-> d, time |-> t, email |-> "A", status |-> st]

\* the documents of db.bookings; payments_charge saves the gateway's status
\* when the charge did not succeed
BookingDocs ==
    {SavedDoc(Ride30, Date1, t, st) : t \in BookingTimes, st \in {"approved", "pending"}}
    \cup {SavedDoc(Ride30, Date2, Str(Noon), "approved")}
    \cup {SavedDoc(Ride30, Date1, Str(Noon), st) : st \in {"processing", "created"}}

RECURSIVE SubsetsUpTo(_, _)
SubsetsUpTo(U, n) ==
    IF n = 0 THEN {{}}
    ELSE LET S == SubsetsUpTo(U, n - 1) IN
         S \cup {X \cup {x} : X \in S, x \in U}

\* the _id of each document: its rank in the set
RECURSIVE WithIds(_)
WithIds(S) ==
    IF S = {} THEN {}
    ELSE LET d == CHOOSE x \in S : TRUE IN
         WithIds(S \ {d}) \cup {[d EXCEPT !.id = Cardinality(S)]}

\* the locals of the timeslots handler and its response; reads is the
\* collections get_db() was asked for
NoQuery ==
    [pc |-> "idle", op |-> "", rideId |-> <<>>, date |-> <<>>, code |-> 0,
     duration |-> 0, slotsRaised |-> FALSE, bookingsRaised |-> FALSE,
     reads |-> {}, blocked |-> {}, times |-> <<>>]

AvailInit ==
    /\ now = TickMinutes
    /\ \E S \in SubsetsUpTo(({"slot"} \X SlotDocs) \cup ({"booking"} \X BookingDocs),
                            MaxDocs) :
        LET slots == {x[2] : x \in {y \in S : y[1] = "slot"}}
            saved == {x[2] : x \in {y \in S : y[1] = "booking"}}
        IN  /\ \A a, b \in slots : a.key = b.key => a = b
            /\ timeslots = WithIds(slots)
            /\ bookings = SetToBag(saved)
    /\ ORDER_BOOKINGS = [o \in OrderIds |-> NoBooking]
    /\ th = [q \in {"Q"} |-> NoQuery]
    /\ reclaimed = {}

\* what the handler does to the store: its calls on db are rides.find_one,
\* timeslots.find and bookings.find, each with a projection; none writes
timeslots_sweeps_holds ==
    /\ timeslots' = {r \in timeslots : ~(r.status = "hold" /\ r.holdUntil < now)}
    /\ UNCHANGED <<now, bookings, ORDER_BOOKINGS, reclaimed>>
timeslots_store_effect == UNCHANGED <<now, store, reclaimed>>

\* GET /timeslots?rideId=&date=, run by a free worker thread
timeslots_handler(q) ==
    /\ th[q].pc = "idle"
    /\ \E rideId \in QueryRides, date \in QueryDates, read \in RideReads,
       slotsRaise \in BOOLEAN, bookingsRaise \in BOOLEAN :
        LET t == [NoQuery EXCEPT !.op = "timeslots", !.rideId = rideId,
                                 !.date = date]
            duration == _ride_duration_minutes(read, rideId)
            fromSlots ==
                IF slotsRaise THEN {}
                ELSE BlocksOf(timeslots, SlotStatuses, rideId, date, duration)
            fromBookings ==
                IF bookingsRaise THEN {}
                ELSE BlocksOf(BagToSet(bookings), BookingStatuses, rideId, date,
                              duration)
            blocked == fromSlots \cup fromBookings
        IN  th' = [th EXCEPT ![q] =
                        IF rideId = <<>> \/ date = <<>> \/ ~StrptimeOk(date)
                        THEN [t EXCEPT !.pc = "responded", !.code = 400]
                        ELSE [t EXCEPT !.pc = "responded",
                                       !.code = 200, !.duration = duration,
                                       !.slotsRaised = slotsRaise,
                                       !.bookingsRaised = bookingsRaise,
                                       !.blocked = blocked,
                                       !.reads = {"rides", "timeslots", "bookings"},
                                       !.times = Candidates(DAY_START_MINUTES,
                                                            duration, blocked)]]
    /\ timeslots_store_effect

\* the response has been sent: the worker thread is free again
timeslots_done(q) ==
    /\ th[q].pc = "responded"
    /\ th' = [th EXCEPT ![q] = NoQuery]
    /\ UNCHANGED <<now, store, reclaimed>>

AvailNext ==
    \/ \E q \in DOMAIN th : timeslots_handler(q)
    \/ \E q \in DOMAIN th : timeslots_done(q)

AvailSpec == AvailInit /\ [][AvailNext]_vars

\* ------------------------------------------ _ride_duration_minutes, called
\* DEFAULT_RIDES of app/seed.py: id and durationMinutes of each entry
NumberedRide(minutes, n) == Decimal(minutes) \o <<"-">> \o Decimal(n)
RideGroup == <<"g", "r", "o", "u", "p">>
DEFAULT_RIDES ==
    {[id |-> NumberedRide(30, n), durationMinutes |-> 30] : n \in 1..5}
    \cup {[id |-> NumberedRide(60, n), durationMinutes |-> 60] : n \in 1..5}
    \cup {[id |-> RideJoy, durationMinutes |-> 10],
          [id |-> RideGroup, durationMinutes |-> 150]}

\* the ride ids the function is called with: those of DEFAULT_RIDES, ids of
\* the numbered families beyond them, and ids that only resemble them
DurationRides ==
    {r.id : r \in DEFAULT_RIDES}
    \cup {NumberedRide(30, 12), NumberedRide(60, 25),
          <<"3", "0", "-">>, <<"3", "0", "-", "x">>, <<"1", "3", "0", "-", "1">>,
          <<"6", "0", "-", "1", "a">>, <<"J", "o", "y">>, RideOther, <<>>}

\* what db.rides.find_one gives: it raises, finds no ride, or finds a ride
\* whose durationMinutes is absent (None), an int, a bool, a str or a float
DurationReads ==
    {[kind |-> k, v |-> 0] : k \in {"raises", "missing", "NoneType", "str", "float"}}
    \cup {[kind |-> "int", v |-> n] : n \in {45, 600, 0, -5}}
    \cup {[kind |-> "bool", v |-> n] : n \in {0, 1}}

NoCall ==
    [pc |-> "idle", op |-> "", ride_id |-> <<>>,
     read |-> [kind |-> "missing", v |-> 0], result |-> 0]

DurationInit ==
    /\ now = 0
    /\ timeslots = {}
    /\ bookings = EmptyBag
    /\ ORDER_BOOKINGS = [o \in OrderIds |-> NoBooking]
    /\ th = [q \in {"Q"} |-> NoCall]
    /\ reclaimed = {}

\* _ride_duration_minutes(db, ride_id) is called and returns
DurationCall(q) ==
    /\ th[q].pc = "idle"
    /\ \E ride_id \in DurationRides, read \in DurationReads :
        th' = [th EXCEPT ![q] =
                 [pc |-> "returned", op |-> "_ride_duration_minutes",
                  ride_id |-> ride_id, read |-> read,
                  result |-> _ride_duration_minutes(read, ride_id)]]
    /\ UNCHANGED <<now, store, reclaimed>>

\* the caller goes on
DurationDone(q) ==
    /\ th[q].pc = "returned"
    /\ th' = [th EXCEPT ![q] = NoCall]
    /\ UNCHANGED <<now, store, reclaimed>>

DurationNext ==
    \/ \E q \in DOMAIN th : DurationCall(q)
    \/ \E q \in DOMAIN th : DurationDone(q)

DurationSpec == DurationInit /\ [][DurationNext]_vars

\* ------------------------------ hold_slot called for neighbouring start times
\* Each caller calls hold_slot for the same ride and date, at 12:00 or at
\* 12:15, a start the availability list offers a quarter of an hour later.
QuarterPast == "12:15"
OverlapRequests ==
    [rideId : Rides, date : Dates, time : Times \cup {QuarterPast}, email : {"A"}]

OverlapInit ==
    /\ now = 0
    /\ timeslots = {}
    /\ bookings = EmptyBag
    /\ ORDER_BOOKINGS = [o \in OrderIds |-> NoBooking]
    /\ \E f \in [Callers -> OverlapRequests] :
          th = [c \in Callers |-> [Idle EXCEPT !.pc = "call", !.op = "hold_slot",
                                               !.booking = f[c]]]
    /\ reclaimed = {}

OverlapSpec == OverlapInit /\ [][RaceNext]_vars

\* ------------------------------------- one order confirmed more than once
\* payments_webhook with an order id: when a booking is stashed under it the
\* webhook builds the request from the stash and runs payments_verify;
\* without a stash it acknowledges
WebhookRequest(c) ==
    /\ Arrive(c)
    /\ BagCardinality(bookings)
         + Cardinality({d \in DOMAIN th : th[d].pc \in {"hook", "order", "book", "save"}})
            < MaxBookings
    /\ \E oid \in OrderIds :
        LET stashed == ORDER_BOOKINGS[oid]
            t == Fresh("payments_webhook", stashed)
        IN  th' = [th EXCEPT ![c] =
                     IF stashed # NoBooking
                     THEN [t EXCEPT !.pc = "hook", !.order = oid]
                     ELSE Respond(t, 200)]
    /\ UNCHANGED <<now, store, reclaimed>>

\* payments_verify run by the webhook: what it raises is swallowed by the
\* webhook, which then acknowledges
WebhookOrder(c) ==
    /\ th[c].pc = "hook"
    /\ \E out \in GatewayStatuses \cup {"RequestError"} :
        LET t == th[c]
            stashed == ORDER_BOOKINGS[t.order]
        IN  th' = [th EXCEPT ![c] =
                     IF out \in OrderSuccess
                     THEN [t EXCEPT !.pc = "book", !.status = "approved",
                                    !.booking = IF stashed # NoBooking
                                                THEN stashed ELSE t.booking]
                     ELSE Respond(t, 200)]
    /\ UNCHANGED <<now, store, reclaimed>>

VerifyNext ==
    \/ \E c \in Clients : VerifyRequest(c)
    \/ \E c \in Clients : VerifyOrder(c)
    \/ \E c \in Clients : WebhookRequest(c)
    \/ \E c \in Clients : WebhookOrder(c)
    \/ \E c \in Clients : BookSlot(c)
    \/ \E c \in Clients : SaveBooking(c)

VerifySpec == Init /\ [][VerifyNext]_vars

\* ------------------------------------- _persist_booking_and_notify, called
\* The bookings it is called with: the dump of a BookingRequest, and a dict
\* without an email.
PersistBookings ==
    BookingRequest \cup [rideId : Rides, date : Dates, time : Times, email : {None}]

\* the locals of _persist_booking_and_notify: saved is whether save_booking
\* returned an id, participants the list handed to the notifications, mailed
\* the addresses send_email was called with, ret what the function returned
NoPersist ==
    [pc |-> "idle", op |-> "", booking |-> NoBooking, saved |-> FALSE,
     participants |-> {}, mailed |-> {}, ret |-> None]

\* _create_participants: the primary rider (further riders and passengers
\* carry no address of the booker); inserted into db.participants
CreatedParticipants(doc) ==
    {[role |-> "PRIMARY_RIDER", email |-> doc.email, created |-> TRUE]}

\* "If primary is missing, add one for emailing"
EnsurePrimary(participants, doc) ==
    IF \E p \in participants : p.role = "PRIMARY_RIDER" THEN participants
    ELSE participants
            \cup {[role |-> "PRIMARY_RIDER", email |-> doc.email, created |-> FALSE]}

\* _send_booking_notifications: the addresses send_email is called with
ConfirmationToCreated(booking_doc, participants) ==
    {p.email : p \in {x \in participants : x.created /\ Truthy(x.email)}}
ConfirmationTo(booking_doc, participants) ==
    IF Truthy(booking_doc.email) THEN {booking_doc.email} ELSE {}

PersistInit ==
    /\ now = 0
    /\ timeslots = {}
    /\ bookings = EmptyBag
    /\ ORDER_BOOKINGS = [o \in OrderIds |-> NoBooking]
    /\ th = [c \in Clients |-> NoPersist]
    /\ reclaimed = {}

\* a confirming handler calls _persist_booking_and_notify(booking, ...)
PersistCall(c) ==
    /\ th[c].pc \in {"idle", "returned"}
    /\ BagCardinality(bookings)
         + Cardinality({d \in DOMAIN th : th[d].pc = "save"}) < MaxBookings
    /\ \E b \in PersistBookings :
          th' = [th EXCEPT ![c] =
                   [NoPersist EXCEPT !.pc = "save", !.booking = b,
                                     !.op = "_persist_booking_and_notify"]]
    /\ UNCHANGED <<now, store, reclaimed>>

\* save_booking inside try/except: a raise makes the function return None
PersistSave(c) ==
    /\ th[c].pc = "save"
    /\ \E fault \in BOOLEAN :
        /\ bookings' = IF fault THEN bookings
                       ELSE bookings (+) SetToBag({BookingDoc(th[c].booking, "approved")})
        /\ th' = [th EXCEPT ![c] =
                    IF fault THEN [@ EXCEPT !.pc = "returned", !.ret = None]
                    ELSE [@ EXCEPT !.pc = "participants", !.saved = TRUE]]
    /\ UNCHANGED <<now, timeslots, ORDER_BOOKINGS, reclaimed>>

\* _create_participants inside try/except, then the primary rider is added
\* when the list has none
PersistParticipants(c) ==
    /\ th[c].pc = "participants"
    /\ \E raised \in BOOLEAN :
        LET t == th[c]
            made == IF raised THEN {} ELSE CreatedParticipants(t.booking)
        IN  th' = [th EXCEPT ![c] =
                     [t EXCEPT !.pc = "notify",
                               !.participants = EnsurePrimary(made, t.booking)]]
    /\ UNCHANGED <<now, store, reclaimed>>

\* _send_booking_notifications inside try/except: send_email is called, and
\* what it raises is swallowed; the booking id is returned
PersistNotify(c) ==
    /\ th[c].pc = "notify"
    /\ LET t == th[c] IN
       th' = [th EXCEPT ![c] =
                [t EXCEPT !.pc = "returned", !.ret = "booking_id",
                          !.mailed = ConfirmationTo(t.booking, t.participants)]]
    /\ UNCHANGED <<now, store, reclaimed>>

PersistNext ==
    \/ \E c \in Clients : PersistCall(c)
    \/ \E c \in Clients : PersistSave(c)
    \/ \E c \in Clients : PersistParticipants(c)
    \/ \E c \in Clients : PersistNotify(c)

PersistSpec == PersistInit /\ [][PersistNext]_vars

\* ------------------------------------------------------------------ claims
KeyOf(b) == slot_key(b.rideId, b.date, b.time)
DocsOf(k) == {r \in timeslots : r.key = k}
Threads == DOMAIN th
Keys == {KeyOf(b) : b \in BookingRequest}

\* the holdUntil of a hold has passed
Passed(r) == r.status = "hold" /\ r.holdUntil < now
\* a reservation that occupies its key: booked, or a hold not yet passed
Live(r) == r.status = "booked" \/ (r.status = "hold" /\ ~Passed(r))
\* the key holds a hold document whose holdUntil has passed
ExpiredHold(k) == \E r \in DocsOf(k) : Passed(r)

\* thread c takes the step that runs hold_slot's insert
HoldStep(c) == th[c].pc = "hold" /\ th'[c].pc # "hold"
\* thread c takes the step that runs book_slot's update
BookStep(c) == th[c].pc = "book" /\ th'[c].pc # "book"

\* C1: when N callers race hold_slot on a key that had no document, and no
\* hold was reclaimed meanwhile, exactly one call returns True and the other
\* N-1 return False.
MutualExclusion ==
    ((\A c \in Threads : th[c].pc = "returned") /\ reclaimed = {})
        => /\ Cardinality({c \in Threads : th[c].ok = "True"}) = 1
           /\ Cardinality({c \in Threads : th[c].ok = "False"}) = Cardinality(Threads) - 1

MutualExclusionWitness ==
    /\ Cardinality(Threads) >= 2
    /\ \A c \in Threads : th[c].pc = "returned"
    /\ reclaimed = {}
    /\ \E c \in Threads : th[c].ok = "False"

\* C2: at most one approved booking is ever persisted for a slot by two
\* different customers.
NoDoubleBooking ==
    \A d1, d2 \in BagToSet(bookings) :
        (d1.status = "approved" /\ d2.status = "approved"
            /\ KeyOf(d1) = KeyOf(d2)) => d1.email = d2.email

\* C3: a hold handler in which hold_slot returned False answers 409 and goes
\* on neither to the payment information nor to the payment gateway.
ConflictSurfaces ==
    \A c \in Threads :
        (th[c].op \in HoldOps /\ th[c].ok = "False")
            => (th[c].pc = "idle" /\ th[c].code = 409)

\* C4: an expired hold that is not promoted is deleted in the end by the TTL
\* monitor, with no release call, and hold_slot on a key without a document
\* does not return False.
ExpiryLiberates ==
    /\ \A k \in Keys : ExpiredHold(k) ~> ~ExpiredHold(k)
    /\ [][\A c \in Threads :
            (HoldStep(c) /\ DocsOf(KeyOf(th[c].booking)) = {})
                => th'[c].ok # "False"]_vars

ExpiryLiberatesWitness ==
    \E c1, c2 \in Threads :
        /\ c1 # c2
        /\ th[c1].ok = "True" /\ th[c2].ok = "True"
        /\ KeyOf(th[c1].booking) = KeyOf(th[c2].booking)
        /\ KeyOf(th[c1].booking) \in reclaimed
        /\ \E r \in timeslots : r.key = KeyOf(th[c2].booking) /\ r.status = "hold"

\* C5: hold_slot on a key whose only document is a hold with holdUntil in the
\* past returns True, although the document is still in the store.
ExpiredHoldIsFree ==
    [][\A c \in Threads :
        (/\ HoldStep(c)
         /\ DocsOf(KeyOf(th[c].booking)) # {}
         /\ \A r \in DocsOf(KeyOf(th[c].booking)) : Passed(r)
         /\ th'[c].ok # None)
            => th'[c].ok = "True"]_vars

\* C6: a booked document stays in the store as it is, whatever time passes,
\* and hold_slot on a key with a booked document returns False (or raises on
\* a storage fault): it never returns True.
PromotionTerminal ==
    [][/\ \A r \in timeslots : r.status = "booked" => r \in timeslots'
       /\ \A c \in Threads :
            (HoldStep(c) /\ \E r \in DocsOf(KeyOf(th[c].booking)) : r.status = "booked")
                => th'[c].ok \in {"False", None}]_vars

\* book_slot created the booked document of a key that never had another
\* (nothing was reclaimed), so the hold_slot that returned False came later
PromotionTerminalWitness ==
    \E c \in Threads :
        /\ th[c].op \in HoldOps /\ th[c].ok = "False"
        /\ reclaimed = {}
        /\ now >= DefaultHoldMinutes
        /\ \E r \in DocsOf(KeyOf(th[c].booking)) :
              r.status = "booked" /\ r.rideId = "Missing"

\* C7, invariant I1: every key has at most one document that is booked or a
\* hold whose holdUntil has not passed.
AtMostOneLive ==
    \A k \in Keys \cup {r.key : r \in timeslots} :
        Cardinality({r \in DocsOf(k) : Live(r)}) <= 1

AtMostOneLiveWitness ==
    \E k \in reclaimed :
        /\ \E r \in DocsOf(k) : Live(r)
        /\ \E c \in Threads : th[c].ok = "False" /\ KeyOf(th[c].booking) = k

\* C8, invariant I2: the only change ever made to the status of a document
\* in the store is hold to booked.
OnlyHoldToBooked ==
    [][\A r \in timeslots, q \in timeslots' :
        (r.id = q.id /\ r.key = q.key /\ r.status # q.status)
            => (r.status = "hold" /\ q.status = "booked")]_vars

\* C9: book_slot on a key that has no hold document makes no booked document.
HoldPrecedesBooking ==
    [][\A c \in Threads :
        (BookStep(c)
            /\ ~\E r \in DocsOf(KeyOf(th[c].booking)) : r.status = "hold")
            => ~\E q \in timeslots' :
                   /\ q.key = KeyOf(th[c].booking)
                   /\ q.status = "booked"
                   /\ q \notin timeslots]_vars

\* what book_slot gives its caller when it promotes a hold
PromotionReturn ==
    LET b == CHOOSE x \in BookingRequest : TRUE IN
    book_slot({HoldDoc(1, b, DefaultHoldMinutes)}, KeyOf(b), 2, FALSE).ret

\* C10: book_slot on a key whose hold expired and was deleted gives its caller
\* an outcome other than that of a successful promotion.
LostHoldReported ==
    [][\A c \in Threads :
        (/\ BookStep(c)
         /\ KeyOf(th[c].booking) \in reclaimed
         /\ DocsOf(KeyOf(th[c].booking)) = {}
         /\ th'[c].bookRet # "PyMongoError")
            => th'[c].bookRet # PromotionReturn]_vars

\* C11: after a successful hold_slot, the second book_slot of the holder
\* returns as the first did and leaves the store as the first left it: the
\* key has exactly one document, booked and without holdUntil.
PromotionIdempotent ==
    /\ [][\A c \in Threads :
            (th[c].pc = "promoted" /\ th'[c].pc = "promoted twice")
                => /\ timeslots' = timeslots
                   /\ th'[c].bookRet = th[c].bookRet]_vars
    /\ [](\A c \in Threads :
            th[c].pc \in {"promoted", "promoted twice"}
                => /\ th[c].bookRet = None
                   /\ \E r \in timeslots :
                        /\ DocsOf(KeyOf(th[c].booking)) = {r}
                        /\ r.status = "booked"
                        /\ r.holdUntil = Unset)

\* the holder promoted its own hold twice, the hold never having been deleted
PromotionIdempotentWitness ==
    \E c \in Threads :
        /\ th[c].pc = "promoted twice"
        /\ reclaimed = {}
        /\ \E r \in DocsOf(KeyOf(th[c].booking)) :
              r.status = "booked" /\ r.rideId = th[c].booking.rideId

\* C12: the TTL monitor deletes only documents that carry a holdUntil in the
\* past, never a booked one, and every booked document is without holdUntil.
ExpirySparesBooked ==
    /\ [][reclaimed' # reclaimed
            => \A r \in timeslots \ timeslots' :
                 /\ r.status # "booked"
                 /\ r.holdUntil # Unset
                 /\ r.holdUntil < now]_vars
    /\ [](\A r \in timeslots : r.status = "booked" => r.holdUntil = Unset)

\* a hold was promoted and its document is in the store after the hold period
\* has gone by, the TTL monitor having deleted nothing
ExpirySparesBookedWitness ==
    \E c \in Threads :
        /\ th[c].op \in HoldOps /\ th[c].ok = "True"
        /\ reclaimed = {}
        /\ now > DefaultHoldMinutes
        /\ \E r \in DocsOf(KeyOf(th[c].booking)) :
              r.status = "booked" /\ r.rideId = th[c].booking.rideId

\* C13: a confirming handler calls book_slot only when it found the payment
\* successful (the status it computed is approved).
PromoteOnlyOnSuccess ==
    [][\A c \in Threads : BookStep(c) => th[c].status = "approved"]_vars

\* C14: when hold_slot or book_slot raises on a storage fault, the handler
\* ends the request with an error instead of going on.
StorageFaultSurfaces ==
    [][\A c \in Threads :
        /\ (HoldStep(c) /\ th[c].op \in HoldOps /\ th'[c].ok = None)
              => (th'[c].pc = "idle" /\ th'[c].code >= 500)
        /\ (BookStep(c) /\ th'[c].bookRet = "PyMongoError")
              => (th'[c].pc = "idle" /\ th'[c].code >= 500)]_vars

\* ------------------------------------------------------ claims on /timeslots
\* the candidate starts of a ride of the given duration
Grid(duration) ==
    {t \in DAY_START_MINUTES..(DAY_END_MINUTES - duration) :
        (t - DAY_START_MINUTES) % TIMESLOT_STEP_MINUTES = 0}
\* the texts of a response's times list
Emitted(r) == {r.times[i] : i \in 1..Len(r.times)}
\* a request the handler answered with an availability list
Answered(r) == r.pc = "responded" /\ r.code = 200
\* a record of a source that the query selects and whose time parses
Blocking(d, statuses, r) ==
    /\ d.rideId = r.rideId /\ d.date = r.date /\ d.status \in statuses
    /\ _parse_time_str_to_minutes(d.time) # {}
\* the starts blocked by the sources whose read did not raise
KnownStarts(r) ==
    (IF r.slotsRaised THEN {}
     ELSE UNION {_parse_time_str_to_minutes(d.time) :
                    d \in {x \in timeslots : Blocking(x, SlotStatuses, r)}})
    \cup
    (IF r.bookingsRaised THEN {}
     ELSE UNION {_parse_time_str_to_minutes(d.time) :
                    d \in {x \in BagToSet(bookings) : Blocking(x, BookingStatuses, r)}})

EmitsExactlyFree ==
    \A q \in Threads :
        LET r == th[q] IN
        Answered(r)
            => LET emitted == Emitted(r) IN
               /\ \A t \in Grid(r.duration) :
                    (FormatTime(t) \in emitted)
                        <=> \A b \in r.blocked :
                               t + r.duration <= b[1] \/ t >= b[2]
               /\ emitted \subseteq {FormatTime(t) : t \in Grid(r.duration)}

\* a candidate that starts exactly where a blocked interval ends is emitted,
\* the one before it is not
EmitsExactlyFreeWitness ==
    \E q \in Threads :
        LET r == th[q] IN
        /\ Answered(r)
        /\ \E b \in r.blocked, t \in Grid(r.duration) :
              /\ t = b[2]
              /\ FormatTime(t) \in Emitted(r)
              /\ FormatTime(t - TIMESLOT_STEP_MINUTES) \notin Emitted(r)

\* the minute a text of the list stands for
MinuteOf(text) == CHOOSE m \in _parse_time_str_to_minutes(Str(text)) : TRUE

\* C17: the times of a response are strictly ascending: each stands for a
\* later minute than the one before it.
TimesAscending ==
    \A q \in Threads :
        LET r == th[q] IN
        Answered(r)
            => LET minutes == [i \in 1..Len(r.times) |->
                                 _parse_time_str_to_minutes(Str(r.times[i]))]
               IN  \A i \in 1..(Len(r.times) - 1) :
                      /\ minutes[i] # {} /\ minutes[i + 1] # {}
                      /\ \A x \in minutes[i], y \in minutes[i + 1] : x < y

\* a list with a gap left by two blocked intervals
TimesAscendingWitness ==
    \E q \in Threads :
        LET r == th[q] IN
        /\ Answered(r)
        /\ Cardinality(r.blocked) >= 2
        /\ Len(r.times) >= 2
        /\ Len(r.times) < Cardinality(Grid(r.duration))

\* The regression scenario: a ride of duration 30, one booked record at 12:00
\* and nothing else in the store, both reads answered.
Scenario(r) ==
    /\ Answered(r)
    /\ r.rideId = Ride30 /\ r.date = Date1 /\ r.duration = 30
    /\ ~r.slotsRaised /\ ~r.bookingsRaised
    /\ timeslots = WithIds({SlotDoc(Ride30, Date1, Noon, <<"booked", Unset>>)})
    /\ bookings = EmptyBag

\* the texts of the grid times from minute a to minute b
GridTexts(a, b) == {FormatTime(t) : t \in {u \in Grid(30) : a <= u /\ u <= b}}

\* C18 as stated: the list holds every grid time from 08:00 through 11:30 and
\* none of 11:45, 12:00, 12:15, 12:30.
ScenarioThroughHalfPastEleven ==
    \A q \in Threads :
        Scenario(th[q])
            => /\ GridTexts(480, 690) \subseteq Emitted(th[q])
               /\ GridTexts(705, 750) \cap Emitted(th[q]) = {}

\* C18, amended: the list holds every grid time from 08:00 through 11:15 and
\* none of 11:30, 11:45, 12:00, 12:15, 12:30.
ScenarioThroughQuarterPastEleven ==
    \A q \in Threads :
        Scenario(th[q])
            => /\ GridTexts(480, 675) \subseteq Emitted(th[q])
               /\ GridTexts(690, 750) \cap Emitted(th[q]) = {}

ScenarioWitness ==
    \E q \in Threads :
        /\ Scenario(th[q])
        /\ <<"1", "1", ":", "1", "5">> \in Emitted(th[q])
        /\ <<"1", "1", ":", "3", "0">> \notin Emitted(th[q])

\* C19: in the scenario the first time of the list after the block is 12:45:
\* 12:30 is not in the list, 12:45 is.
FirstAfterBlock ==
    \A q \in Threads :
        Scenario(th[q])
            => /\ <<"1", "2", ":", "3", "0">> \notin Emitted(th[q])
               /\ <<"1", "2", ":", "4", "5">> \in Emitted(th[q])
               /\ \A x \in Emitted(th[q]) :
                    MinuteOf(x) >= 720 => MinuteOf(x) >= 765

FirstAfterBlockWitness ==
    \E q \in Threads :
        /\ Scenario(th[q])
        /\ \E i \in 1..(Len(th[q].times) - 1) :
              /\ th[q].times[i] = <<"1", "1", ":", "1", "5">>
              /\ th[q].times[i + 1] = <<"1", "2", ":", "4", "5">>

\* C20 as stated: in the scenario the blocked interval is [710, 770).
ScenarioBlockTo770 ==
    \A q \in Threads : Scenario(th[q]) => th[q].blocked = {<<710, 770>>}

\* C20, amended: in the scenario the blocked interval is [710, 760), which is
\* [720 - 10, 720 + 30 + 10).
ScenarioBlockTo760 ==
    \A q \in Threads : Scenario(th[q]) => th[q].blocked = {<<710, 760>>}

ScenarioBlockWitness ==
    \E q \in Threads :
        /\ Scenario(th[q])
        /\ \E b \in th[q].blocked : b[1] = 710 /\ b[2] = 760

\* The boundary scenario: a ride of duration 60, one booked record at 10:00
\* and nothing else in the store, both reads answered.
Scenario60(r) ==
    /\ Answered(r)
    /\ r.rideId = Ride60 /\ r.date = Date1 /\ r.duration = 60
    /\ ~r.slotsRaised /\ ~r.bookingsRaised
    /\ timeslots = WithIds({SlotDoc(Ride60, Date1, Ten, <<"booked", Unset>>)})
    /\ bookings = EmptyBag

\* C21 as stated: in the boundary scenario 09:45 is not in the list and 08:50
\* is.
BoundaryTenToNineIncluded ==
    \A q \in Threads :
        Scenario60(th[q])
            => /\ <<"0", "9", ":", "4", "5">> \notin Emitted(th[q])
               /\ <<"0", "8", ":", "5", "0">> \in Emitted(th[q])

\* C21, amended: in the boundary scenario 09:45 is not in the list; the
\* occupancy [530, 590) of a start at 08:50 touches the blocked interval
\* without overlapping it, but 08:50 is no candidate of the 15-minute grid and
\* is not in the list: the last time before the block is 08:45.
BoundaryTouchesOffGrid ==
    \A q \in Threads :
        Scenario60(th[q])
            => /\ <<"0", "9", ":", "4", "5">> \notin Emitted(th[q])
               /\ \A b \in th[q].blocked :
                     /\ b[1] = 590
                     /\ ~Overlaps(530, 590, b)
                     /\ Overlaps(585, 645, b)
               /\ 530 \notin Grid(60)
               /\ <<"0", "8", ":", "5", "0">> \notin Emitted(th[q])
               /\ <<"0", "8", ":", "4", "5">> \in Emitted(th[q])
               /\ <<"0", "9", ":", "0", "0">> \notin Emitted(th[q])

BoundaryWitness ==
    \E q \in Threads :
        /\ Scenario60(th[q])
        /\ th[q].blocked # {}
        /\ <<"0", "8", ":", "4", "5">> \in Emitted(th[q])

\* ------------------------------------------- claims on _ride_duration_minutes
Returned(r) == r.pc = "returned" /\ r.op = "_ride_duration_minutes"
\* the ride document carries a durationMinutes that is an int above 0
ValidConfigured(read) == read.kind \in {"int", "bool"} /\ read.v > 0
\* the ids of the numbered families 30-N and 60-N
Family(minutes) == {NumberedRide(minutes, n) : n \in 1..99}

\* C22: every call returns (the function has no way to raise): the result is
\* an integer above 0 for every ride id and every outcome of the read of
\* db.rides, and it is 30 when the ride has no valid configured duration and
\* its id is in neither family and is neither joy nor group.
DurationPositive ==
    \A q \in Threads :
        LET r == th[q] IN
        Returned(r)
            => /\ r.result \in Nat /\ r.result > 0
               /\ (/\ ~ValidConfigured(r.read)
                   /\ r.ride_id \notin Family(30) \cup Family(60) \cup {RideJoy, RideGroup})
                    => r.result = 30

\* a ride whose configured duration is an int that is not above 0, with an id
\* that only resembles a family's, resolved to 30
DurationPositiveWitness ==
    \E q \in Threads :
        LET r == th[q] IN
        /\ Returned(r)
        /\ r.read.kind = "int" /\ r.read.v <= 0
        /\ r.ride_id = <<"6", "0", "-", "1", "a">>
        /\ r.result = 30

\* C23: without a valid configured duration the result is 30 for ids 30-N,
\* 60 for ids 60-N, 10 for joy and 150 for group, and for every entry of
\* DEFAULT_RIDES it is the entry's durationMinutes.
FallbackTable ==
    \A q \in Threads :
        LET r == th[q] IN
        (Returned(r) /\ ~ValidConfigured(r.read))
            => /\ r.ride_id \in Family(30) => r.result = 30
               /\ r.ride_id \in Family(60) => r.result = 60
               /\ r.ride_id = RideJoy => r.result = 10
               /\ r.ride_id = RideGroup => r.result = 150
               /\ \A e \in DEFAULT_RIDES :
                     r.ride_id = e.id => r.result = e.durationMinutes

FallbackTableWitness ==
    \E q \in Threads :
        LET r == th[q] IN
        /\ Returned(r) /\ r.read.kind = "raises"
        /\ r.ride_id = NumberedRide(60, 25)
        /\ r.result = 60

\* the documents hold_slot can be called with on the stored slots
ProbeDocs == {[d EXCEPT !.id = 0] : d \in SlotDocs}
\* what book_slot does on key k: the documents after its update of the
\* document found, or an upsert when none is found
BookOutcome(ts, k) ==
    IF \E r \in ts : r.key = k
    THEN [found |-> TRUE, ts |-> book_slot(ts, k, 0, FALSE).ts]
    ELSE [found |-> FALSE, ts |-> ts]

\* C24: timeslots is read-only: a step of the handler leaves every document
\* of db.timeslots and db.bookings as it was, so the outcome of a hold_slot or
\* a book_slot called afterwards, for any key, is the outcome it would have
\* had without the request.
TimeslotsReadOnly ==
    [][/\ timeslots' = timeslots
       /\ bookings' = bookings
       /\ \A d \in ProbeDocs :
            /\ hold_slot(timeslots', d, FALSE) = hold_slot(timeslots, d, FALSE)
            /\ BookOutcome(timeslots', d.key) = BookOutcome(timeslots, d.key)]_vars

\* a request was answered from a store that holds an expired hold the query
\* selects; the hold is still there and a hold_slot on its key is refused
TimeslotsReadOnlyWitness ==
    \E q \in Threads :
        LET r == th[q] IN
        /\ Answered(r) /\ r.blocked # {}
        /\ r.reads = {"rides", "timeslots", "bookings"}
        /\ \E d \in timeslots :
            /\ Blocking(d, SlotStatuses, r)
            /\ d.status = "hold" /\ d.holdUntil < now
            /\ hold_slot(timeslots, [d EXCEPT !.id = 0], FALSE).ret = "False"

\* a text of the form YYYY-MM-DD that names a day of the calendar
CalendarDate(t) ==
    /\ Len(t) = 10 /\ t[5] = "-" /\ t[8] = "-"
    /\ \A i \in {1, 2, 3, 4, 6, 7, 9, 10} : IsDigit(t[i])
    /\ LET y == DigitsVal(SubSeq(t, 1, 4))
           m == DigitsVal(SubSeq(t, 6, 7))
           d == DigitsVal(SubSeq(t, 9, 10))
       IN  y >= 1 /\ m \in 1..12 /\ d \in 1..DaysInMonth(y, m)

\* C25: a request with an empty rideId, an empty date, or a date that is not
\* a calendar date written YYYY-MM-DD is answered 400, and is answered before
\* the handler asks for the store: no collection was read and nothing of the
\* response was computed from one.  A request with a ride id and a calendar
\* date is not answered 400.
InvalidQueryRejected ==
    \A q \in Threads :
        LET r == th[q] IN
        r.pc = "responded" =>
            /\ (r.rideId = <<>> \/ r.date = <<>> \/ ~CalendarDate(r.date))
                    <=> r.code = 400
            /\ r.code = 400 =>
                    /\ r.reads = {} /\ r.blocked = {} /\ r.times = <<>>
                    /\ r.duration = 0 /\ ~r.slotsRaised /\ ~r.bookingsRaised

\* 30 February was asked for a ride that has a booked slot in the store
InvalidQueryRejectedWitness ==
    \E q \in Threads :
        LET r == th[q] IN
        /\ r.pc = "responded" /\ r.code = 400
        /\ r.rideId = Ride30 /\ r.date = DateNoDay
        /\ \E d \in timeslots : d.rideId = Ride30 /\ d.status = "booked"

\* C26: a hold whose holdUntil has passed and whose document is still in
\* db.timeslots does not block: the blocked intervals of a response come from
\* the booked documents and the holds that have not expired (and from
\* db.bookings), so a candidate that only an expired hold covers is listed.
ExpiredHoldDoesNotBlock ==
    \A q \in Threads :
        LET r == th[q] IN
        (Answered(r) /\ ~r.slotsRaised /\ ~r.bookingsRaised) =>
            LET live == {d \in timeslots : Live(d)}
                starts ==
                    UNION {_parse_time_str_to_minutes(d.time) :
                              d \in {x \in live : Blocking(x, SlotStatuses, r)}}
                    \cup
                    UNION {_parse_time_str_to_minutes(d.time) :
                              d \in {x \in BagToSet(bookings) :
                                         Blocking(x, BookingStatuses, r)}}
            IN  r.blocked = {BlockOf(m, r.duration) : m \in starts}

\* a document of the queried ride and date whose time is a minute of the day
Selected(d, r) ==
    d.rideId = r.rideId /\ d.date = r.date /\ _parse_time_str_to_minutes(d.time) # {}
\* the candidate that starts at minute t is in the list of response r
Listed(t, r) == FormatTime(t) \in Emitted(r)

\* C27: the blocked set is the union of both sources.  When both reads
\* succeed, every document of db.timeslots with status hold or booked and
\* every document of db.bookings with status approved, processing or created,
\* of the queried ride and date and with a time that parses, has its interval
\* in the blocked set, and no candidate start inside that interval is listed,
\* whether or not the other source holds a document for it.
BlockedIsUnion ==
    \A q \in Threads :
        LET r == th[q] IN
        (Answered(r) /\ ~r.slotsRaised /\ ~r.bookingsRaised) =>
            LET sources ==
                    {d \in timeslots : d.status \in {"hold", "booked"} /\ Selected(d, r)}
                    \cup {d \in BagToSet(bookings) :
                            /\ d.status \in {"approved", "processing", "created"}
                            /\ Selected(d, r)}
                starts == UNION {_parse_time_str_to_minutes(d.time) : d \in sources}
                grid == Grid(r.duration)
            IN  \A m \in starts :
                    /\ <<Max(0, m - 10), Min(1440, m + r.duration + 10)>> \in r.blocked
                    /\ \A t \in grid :
                        (m - 10 <= t /\ t < m + r.duration + 10) => ~Listed(t, r)

\* a booking in processing that db.timeslots has no document for blocks noon
BlockedIsUnionWitness ==
    \E q \in Threads :
        LET r == th[q] IN
        /\ Answered(r) /\ ~r.slotsRaised /\ ~r.bookingsRaised
        /\ r.rideId = Ride30 /\ r.date = Date1 /\ r.duration = 30
        /\ ~Listed(720, r) /\ Listed(765, r)
        /\ timeslots = {}
        /\ \E d \in BagToSet(bookings) : d.status = "processing" /\ d.time = Str(Noon)

\* C28: the blocked intervals of a response are exactly the intervals
\* [max(0, t - 10), min(1440, t + duration + 10)) of the starts t of the
\* source records that were read, duration being the resolved duration of the
\* queried ride; every one of them has 0 <= start < end <= 1440.
BlockClamped ==
    \A q \in Threads :
        LET r == th[q] IN
        Answered(r) =>
            /\ r.duration \in {30, 60, 600}
            /\ r.blocked =
                    {<<(IF t - 10 < 0 THEN 0 ELSE t - 10),
                       (IF t + r.duration + 10 > 1440 THEN 1440
                        ELSE t + r.duration + 10)>> : t \in KnownStarts(r)}
            /\ \A b \in r.blocked : 0 <= b[1] /\ b[1] < b[2] /\ b[2] <= 1440

\* a booking at 00:05 and a slot at 23:50: both ends are clamped
BlockClampedWitness ==
    \E q \in Threads :
        LET r == th[q] IN
        /\ Answered(r) /\ r.duration = 30
        /\ r.blocked = {<<0, 45>>, <<1420, 1440>>}

\* the stored times that are no HH:MM with hour 0-23 and minute 0-59: None,
\* a word, hour 24
MalformedTime(time) == time.kind # "str" \/ time.s \in {Word, Hour24}
\* the minute of the day of each of the other stored times
ClockMinute(text) ==
    CASE text = Noon -> 720
      [] text = Ten -> 600
      [] text = LateEvening -> 1430
      [] text = AfterMidnight -> 5
      [] text = Unpadded -> 545

\* C29: a record whose time is None, is not a string or is no valid HH:MM is
\* skipped: a request with a ride id and a calendar date is answered with a
\* list whatever times the store holds, and its blocked intervals are the
\* intervals of the selected records with a valid time in the sources that
\* were read; the malformed records add none and remove none.
MalformedSkipped ==
    \A q \in Threads :
        LET r == th[q] IN
        (r.pc = "responded" /\ r.rideId # <<>> /\ CalendarDate(r.date)) =>
            /\ r.code = 200
            /\ LET picked(docs, statuses) ==
                       {d.time.s : d \in {x \in docs :
                            /\ x.rideId = r.rideId /\ x.date = r.date
                            /\ x.status \in statuses /\ ~MalformedTime(x.time)}}
                   good ==
                       (IF r.slotsRaised THEN {}
                        ELSE picked(timeslots, {"hold", "booked"}))
                       \cup
                       (IF r.bookingsRaised THEN {}
                        ELSE picked(BagToSet(bookings),
                                    {"approved", "processing", "created"}))
               IN  r.blocked =
                       {<<Max(0, ClockMinute(t) - 10),
                          Min(1440, ClockMinute(t) + r.duration + 10)>> : t \in good}

\* both sources were read; the store holds a selected record with a malformed
\* time next to a selected record with a valid one, whose interval is the
\* only one blocked
MalformedSkippedWitness ==
    \E q \in Threads :
        LET r == th[q]
            all == timeslots \cup BagToSet(bookings)
            chosen == {d \in all : /\ d.rideId = r.rideId /\ d.date = r.date
                                   /\ d.status \in {"booked", "approved"}}
        IN  /\ Answered(r) /\ ~r.slotsRaised /\ ~r.bookingsRaised
            /\ \E d \in chosen : MalformedTime(d.time)
            /\ \E d \in chosen : ~MalformedTime(d.time)
            /\ Cardinality(r.blocked) = 1

\* C30: in every reachable state a document of db.timeslots carries a
\* holdUntil exactly while its status is hold: the document hold_slot inserts
\* has both, the update of book_slot sets booked and unsets holdUntil at
\* once, and seeded and upserted documents have neither.
HoldUntilIffHold ==
    \A r \in timeslots : (r.holdUntil # Unset) <=> (r.status = "hold")

\* a hold placed by hold_slot was promoted within its hold period: the
\* document kept the fields of the hold but not its holdUntil
HoldUntilIffHoldWitness ==
    \E c \in Threads :
        /\ th[c].op \in HoldOps /\ th[c].ok = "True"
        /\ now <= DefaultHoldMinutes
        /\ \E r \in DocsOf(KeyOf(th[c].booking)) :
            /\ r.status = "booked" /\ r.holdUntil = Unset
            /\ r.rideId = th[c].booking.rideId

\* C31: every document of db.timeslots carries rideId, date and time, and its
\* key is slot_key of those fields, whether hold_slot inserted it or book_slot
\* created or updated it; so every booked document is among those the
\* timeslots query selects by (rideId, date).
RecordsCarryFields ==
    \A r \in timeslots :
        /\ r.rideId # "Missing" /\ r.date # "Missing" /\ r.time # "Missing"
        /\ r.key = slot_key(r.rideId, r.date, r.time)
        /\ r.status = "booked" =>
              \E b \in BookingRequest : r.rideId = b.rideId /\ r.date = b.date

\* C32: on a lost hold the handler goes on: a confirming handler that found
\* the payment successful and has called book_slot goes on to save_booking,
\* whether a document was there to promote and whether book_slot raised.
PaidIsPersisted ==
    [][\A c \in Threads :
        (BookStep(c) /\ th[c].status = "approved") => th'[c].pc = "save"]_vars

\* C33: every hold has an explicit bounded lifetime: the document hold_slot
\* builds has holdUntil equal to the clock at that moment plus max(1, minutes)
\* minutes, 20 when the caller gives none, so at least 1 and at most 20 here;
\* the document it inserts carries that holdUntil, and no hold is without one.
HoldLifetimeBounded ==
    /\ [][\A c \in Threads :
            (th[c].pc = "call" /\ th'[c].pc = "hold")
                => /\ th'[c].doc - now \in {1, 20}
                   /\ th'[c].doc > now]_vars
    /\ [][\A c \in Threads :
            (HoldStep(c) /\ th'[c].ok = "True")
                => \E r \in timeslots' \ timeslots :
                      r.status = "hold" /\ r.holdUntil = th[c].doc]_vars
    /\ [](\A r \in timeslots : r.status = "hold" => r.holdUntil \in 1..(now + 20))

\* a hold placed at minute 0 with minutes below 1 is in the store: it lives
\* one minute
HoldLifetimeBoundedWitness ==
    \E c \in Threads :
        /\ th[c].pc = "returned" /\ th[c].ok = "True" /\ th[c].doc = 1
        /\ now = 0
        /\ \E r \in timeslots : r.status = "hold" /\ r.holdUntil = 1

\* C34: a key whose document has status open, as seed_timeslots writes it, is
\* free like a key without a document: a hold_slot on it that the store
\* answers returns True, and the key then has a hold document.
OpenIsFree ==
    [][\A c \in Threads :
        LET k == KeyOf(th[c].booking) IN
        (/\ HoldStep(c) /\ th[c].op \in HoldOps
         /\ DocsOf(k) # {} /\ \A r \in DocsOf(k) : r.status = "open"
         /\ th'[c].ok # None)
            => /\ th'[c].ok = "True"
               /\ \E r \in timeslots' : r.key = k /\ r.status = "hold"]_vars

\* the minute of the day of a start time the callers ask for
ClockOf(time) == IF time = QuarterPast THEN 735 ELSE 720
\* the resolved duration of ride 30-1
Ride30Minutes == _ride_duration_minutes([kind |-> "missing", v |-> 0], Ride30)

\* C35: no two live reservations (an unexpired hold or a booked document) of
\* one ride and date have overlapping occupancy: the occupancy [t, t+duration)
\* of one never overlaps the buffered blocked interval of the other, because
\* hold_slot only succeeds for a time the availability list would report free.
NoOverlappingOccupancy ==
    \A r1, r2 \in {r \in timeslots : Live(r)} :
        (r1 # r2 /\ r1.rideId = r2.rideId /\ r1.date = r2.date)
            => ~Overlaps(ClockOf(r1.time), ClockOf(r1.time) + Ride30Minutes,
                         BlockOf(ClockOf(r2.time), Ride30Minutes))

\* C36: confirming one paid order more than once, by repeated payments_verify
\* calls or by the webhook and payments_verify in any interleaving, persists
\* one booking: db.bookings never holds the booking of the order twice.
OneBookingPerOrder ==
    \A d \in BagToSet(bookings) : CopiesIn(d, bookings) <= 1

\* C37: a confirmation promotes only the hold of its own workflow: a
\* book_slot called by a caller whose hold_slot had returned True leaves every
\* unexpired hold that is not the one that caller placed (it carries another
\* holdUntil) as it is, a hold with the same holdUntil.
PromotesOwnHoldOnly ==
    [][\A a \in Threads :
        (th[a].pc \in {"returned", "promoted"} /\ th'[a].pc # th[a].pc)
            => \A r \in timeslots :
                  (r.status = "hold" /\ ~Passed(r) /\ r.holdUntil # th[a].doc)
                      => r \in timeslots']_vars

\* C38: every time of a response is a start t with 08:00 <= t, t + duration
\* <= 17:00 and t - 08:00 a multiple of 15 minutes; the list has at most 37
\* entries and is empty when the duration of the ride is above 540 minutes.
WithinOperatingWindow ==
    \A q \in Threads :
        LET r == th[q] IN
        Answered(r) =>
            /\ \A i \in 1..Len(r.times) :
                  LET m == MinuteOf(r.times[i]) IN
                  /\ 8 * 60 <= m
                  /\ m + r.duration <= 17 * 60
                  /\ (m - 8 * 60) % 15 = 0
            /\ Len(r.times) <= 37
            /\ r.duration > 540 => r.times = <<>>

\* a ride of 30 minutes with nothing blocked: 35 times, the last one 16:30
WithinOperatingWindowWitness ==
    \E q \in Threads :
        LET r == th[q] IN
        /\ Answered(r) /\ r.duration = 30 /\ r.blocked = {}
        /\ Len(r.times) = 35
        /\ r.times[1] = <<"0", "8", ":", "0", "0">>
        /\ r.times[35] = <<"1", "6", ":", "3", "0">>

====
